---- MODULE Spec2Model ----
(***************************************************************************)
(* The penguins dashboard of src/app/app.py: one data frame loaded at      *)
(* startup, two sidebar inputs (a mass slider and a species checkbox       *)
(* group), one reactive calculation filtered_df, and five rendered         *)
(* outputs that read it.                                                   *)
(*                                                                         *)
(* Lengths are held in tenths of a millimetre (395 is 39.5 mm), masses in  *)
(* grams.  A missing measurement (a NaN cell of the data frame) is the     *)
(* value NaN below; every comparison and every sum treats it as pandas     *)
(* does.                                                                   *)
(***************************************************************************)
EXTENDS Integers, Sequences, FiniteSets, TLC

VARIABLES
    df,             \* the data frame loaded on line 9: a sequence of rows
    input_mass,     \* input.mass(): the slider's value
    input_species,  \* input.species(): the checked species
    calc_valid,     \* filtered_df holds a cached value that is not invalidated
    calc_value,     \* the cached value of filtered_df
    pending,        \* the outputs invalidated and waiting for the flush
    display,        \* what each output last rendered
    n_evals,        \* history: runs of filtered_df's body since the last selection change
    calc_sel,       \* history: the selection the cached value was computed from
    seen            \* history: per output, the selection behind the value it last read

vars == <<df, input_mass, input_species, calc_valid, calc_value, pending,
          display, n_evals, calc_sel, seen>>

----------------------------------------------------------------------------
(* Bounds of the model *)

\* The longest data frame the model loads.
MaxRows == 3

\* The longest data frame of the behaviours checked under fairness.
MaxRowsLive == 1

----------------------------------------------------------------------------
(* The data *)

\* A missing cell (NaN).  Real measurements are positive.
NaN == -1

\* Rows of the kind palmerpenguins.load_penguins() returns: one of each
\* species, and the row whose measurements are all missing.  The bill
\* measurements are multiples of 0.5 mm, so that every mean of up to four of
\* them that lies exactly between two tenths is a binary fraction and the
\* float the code formats is that exact mean.
Penguins ==
    { [species |-> "Adelie", island |-> "Torgersen", bill_length_mm |-> 395,
       bill_depth_mm |-> 180, flipper_length_mm |-> 181, body_mass_g |-> 3750],
      [species |-> "Adelie", island |-> "Torgersen", bill_length_mm |-> NaN,
       bill_depth_mm |-> NaN, flipper_length_mm |-> NaN, body_mass_g |-> NaN],
      [species |-> "Gentoo", island |-> "Biscoe", bill_length_mm |-> 500,
       bill_depth_mm |-> 165, flipper_length_mm |-> 230, body_mass_g |-> 5700],
      [species |-> "Chinstrap", island |-> "Dream", bill_length_mm |-> 465,
       bill_depth_mm |-> 165, flipper_length_mm |-> 192, body_mass_g |-> 2700] }

\* The data frames the model loads: every sequence of up to MaxRows rows.
Datasets == UNION { [1..n -> Penguins] : n \in 0..MaxRows }

----------------------------------------------------------------------------
(* The sidebar inputs *)

SliderMin == 2000
SliderMax == 6000
SliderValue == 6000

\* Mutant of MassChoices: the slider's upper end raised to the heaviest
\* penguin of the data set.
MassChoicesWide == {2000, 3750, 6000, 6300}

\* The slider positions the model moves to: both ends of the slider and the
\* mass of one row, so that a row's mass can equal the threshold.
MassChoices == {SliderMin, 3750, SliderMax}

SpeciesChoices == {"Adelie", "Gentoo", "Chinstrap"}
SpeciesSelected == {"Adelie", "Gentoo", "Chinstrap"}

Outputs == {"count", "bill_length", "bill_depth", "length_depth", "summary_statistics"}

\* What an output shows is a tuple: empty before its first rendering, and
\* afterwards the one value its function returned.
NotRendered == << >>

----------------------------------------------------------------------------
(* The filter: the body of filtered_df *)

\* Mutant of Lt: the comparison written <= instead of <.
LtOrEqual(cell, x) == cell # NaN /\ cell <= x

\* Mutant of Lt: the missing cells filled with a number (fillna) before the
\* comparison, so that a missing mass lies below every threshold.
LtFilled(cell, x) == cell < x

\* pandas' Series < scalar: False wherever the cell is NaN.
Lt(cell, x) == cell # NaN /\ cell < x

\* df[df["species"].isin(selected)]
IsSpecies(selected, row) == row.species \in selected
FilterSpecies(d, selected) == SelectSeq(d, LAMBDA row : IsSpecies(selected, row))

\* Mutant of FilterMass: the comparison turned round, keeping the rows above
\* the threshold.
FilterMassAbove(d, mass) ==
    SelectSeq(d, LAMBDA row : row.body_mass_g # NaN /\ row.body_mass_g > mass)

\* filt_df.loc[filt_df["body_mass_g"] < mass]
FilterMass(d, mass) == SelectSeq(d, LAMBDA row : Lt(row.body_mass_g, mass))

\* Mutant of filtered_df: the result handed back in the opposite row order,
\* as a descending sort of the frame would leave it.
Reverse(d) == [i \in 1..Len(d) |-> d[Len(d) + 1 - i]]
filtered_df_reordered(d, selected, mass) ==
    Reverse(FilterMass(FilterSpecies(d, selected), mass))

filtered_df(d, selected, mass) == FilterMass(FilterSpecies(d, selected), mass)

----------------------------------------------------------------------------
(* The outputs: what each render function returns for a filtered frame *)

RECURSIVE SumCells(_)
SumCells(cells) ==
    IF cells = << >> THEN 0 ELSE Head(cells) + SumCells(Tail(cells))

Column(d, name) == [i \in 1..Len(d) |-> d[i][name]]

\* Round the fraction num/den (den > 0, num >= 0) to the nearest integer,
\* a tie going to the even one: what the format specification .1f does to
\* the exactly represented value it is given.
RoundHalfEven(num, den) ==
    LET q == num \div den
        r == num % den
    IN  IF 2 * r < den THEN q
        ELSE IF 2 * r > den THEN q + 1
        ELSE IF q % 2 = 0 THEN q ELSE q + 1

\* Series.mean() followed by the .1f of the f-string, in tenths: the missing
\* cells are skipped, and the mean of no cell at all is NaN.
MeanTenths(cells) ==
    LET present == SelectSeq(cells, LAMBDA c : c # NaN)
    IN  IF present = << >> THEN NaN
        ELSE RoundHalfEven(SumCells(present), Len(present))

\* f"{x:.1f}" of a float: one decimal, and "nan" for NaN.
Format1f(tenths) ==
    IF tenths = NaN THEN "nan"
    ELSE ToString(tenths \div 10) \o "." \o ToString(tenths % 10)

\* The columns of the data frame that the model keeps.
Columns ==
    {"species", "island", "bill_length_mm", "bill_depth_mm", "flipper_length_mm",
     "body_mass_g"}

\* Mutant of CountText: shape[1], the number of columns, instead of shape[0].
CountTextColumns(view) == ToString(Cardinality(Columns)) \o " penguins"

\* f"{filtered_df().shape[0]} penguins"
CountText(view) == ToString(Len(view)) \o " penguins"

\* f"Avg: {filtered_df()[column].mean():.1f} mm"
AvgText(view, column) ==
    "Avg: " \o Format1f(MeanTenths(Column(view, column))) \o " mm"

\* sns.scatterplot(data=view, x="bill_length_mm", y="bill_depth_mm",
\* hue="species"): the points handed to the plotting library.
ScatterData(view) ==
    [i \in 1..Len(view) |->
        [x |-> view[i].bill_length_mm, y |-> view[i].bill_depth_mm,
         hue |-> view[i].species]]

\* render.DataGrid(view[cols], filters=True): the rows of the grid.
GridCols == {"species", "island", "bill_length_mm", "bill_depth_mm", "body_mass_g"}
GridData(view) ==
    [i \in 1..Len(view) |-> [c \in GridCols |-> view[i][c]]]

\* The value the output named out returns for a filtered frame.
RenderValue(out, view) ==
    CASE out = "count" -> CountText(view)
      [] out = "bill_length" -> AvgText(view, "bill_length_mm")
      [] out = "bill_depth" -> AvgText(view, "bill_depth_mm")
      [] out = "length_depth" -> ScatterData(view)
      [] out = "summary_statistics" -> GridData(view)

----------------------------------------------------------------------------
(* The reactive graph *)

\* The state after the module has run and the session has started: the
\* frame is loaded, the inputs hold their defaults, filtered_df has never
\* run and every output waits for its first rendering.
Init ==
    /\ df \in Datasets
    /\ input_mass = SliderValue
    /\ input_species = SpeciesSelected
    /\ calc_valid = FALSE
    /\ calc_value = << >>
    /\ pending = Outputs
    /\ display = [out \in Outputs |-> NotRendered]
    /\ n_evals = 0
    /\ calc_sel = << >>
    /\ seen = [out \in Outputs |-> << >>]

\* Mutant of ReactiveCalc: a plain function, without @reactive.calc: every
\* call runs the body.
ReactiveCalcNoCache ==
    /\ calc_value' = filtered_df(df, input_species, input_mass)
    /\ calc_valid' = TRUE
    /\ n_evals' = n_evals + 1
    /\ calc_sel' = <<input_species, input_mass>>
    /\ df' = df

\* Mutant of ReactiveCalc: the body assigns the filtered frame to the global
\* df instead of to its local filt_df.
ReactiveCalcInPlace ==
    IF calc_valid
    THEN UNCHANGED <<calc_valid, calc_value, n_evals, calc_sel, df>>
    ELSE /\ calc_value' = filtered_df(df, input_species, input_mass)
         /\ calc_valid' = TRUE
         /\ n_evals' = n_evals + 1
         /\ calc_sel' = <<input_species, input_mass>>
         /\ df' = calc_value'

\* A call of filtered_df() by an output.  @reactive.calc runs the body only
\* when no valid cached value exists, and otherwise hands back the cached
\* value; the body reads df, input.species() and input.mass() and assigns
\* only to its local filt_df.
ReactiveCalc ==
    IF calc_valid
    THEN UNCHANGED <<calc_valid, calc_value, n_evals, calc_sel, df>>
    ELSE /\ calc_value' = filtered_df(df, input_species, input_mass)
         /\ calc_valid' = TRUE
         /\ n_evals' = n_evals + 1
         /\ calc_sel' = <<input_species, input_mass>>
         /\ df' = df

\* One invalidated output re-executes in the flush: it calls filtered_df()
\* and shows what its function returns.
Render(out) ==
    /\ out \in pending
    /\ ReactiveCalc
    /\ display' = [display EXCEPT ![out] = <<RenderValue(out, calc_value')>>]
    /\ seen' = [seen EXCEPT ![out] = calc_sel']
    /\ pending' = pending \ {out}
    /\ UNCHANGED <<input_mass, input_species>>

count == Render("count")
bill_length == Render("bill_length")
bill_depth == Render("bill_depth")
length_depth == Render("length_depth")
summary_statistics == Render("summary_statistics")

\* The outputs that read the cached value of filtered_df and have not been
\* invalidated since: its dependents.
Readers == IF calc_valid THEN Outputs \ pending ELSE {}

\* Mutant of Invalidate: the outputs read the frame through a value that is
\* not reactive, so a new input invalidates the calculation and no output.
InvalidateCalcOnly ==
    /\ calc_valid' = FALSE
    /\ n_evals' = 0
    /\ UNCHANGED <<df, calc_value, display, calc_sel, seen, pending>>

\* An input that filtered_df read takes a new value: the cached value is
\* invalidated and so is every output that read it.
Invalidate ==
    /\ calc_valid' = FALSE
    /\ pending' = pending \cup Readers
    /\ n_evals' = 0
    /\ UNCHANGED <<df, calc_value, display, calc_sel, seen>>

\* The session handles one input message at a time and flushes the
\* invalidated outputs before it takes the next message.
Idle == pending = {}

\* The user drags the mass slider to another position.
SetMass(m) ==
    /\ Idle
    /\ m # input_mass
    /\ input_mass' = m
    /\ UNCHANGED input_species
    /\ Invalidate

\* The user checks or unchecks one species.
ToggleSpecies(s) ==
    /\ Idle
    /\ input_species' = IF s \in input_species THEN input_species \ {s}
                        ELSE input_species \cup {s}
    /\ UNCHANGED input_mass
    /\ Invalidate

ChangeMass == \E m \in MassChoices : SetMass(m)
ChangeSpecies == \E s \in SpeciesChoices : ToggleSpecies(s)

Next ==
    \/ ChangeMass
    \/ ChangeSpecies
    \/ count
    \/ bill_length
    \/ bill_depth
    \/ length_depth
    \/ summary_statistics

Spec == Init /\ [][Next]_vars

\* The session on the frames that hold a penguin whose mass was measured,
\* as the penguins data does: some selection shows a row of such a frame.
MeasuredInit == Init /\ \E i \in 1..Len(df) : df[i].body_mass_g # NaN
MeasuredSpec == MeasuredInit /\ [][Next]_vars

\* The same session on the shorter frames.
LiveInit == Init /\ Len(df) <= MaxRowsLive

\* A flush that has begun runs every invalidated output.
FairSpec ==
    /\ LiveInit
    /\ [][Next]_vars
    /\ WF_vars(count)
    /\ WF_vars(bill_length)
    /\ WF_vars(bill_depth)
    /\ WF_vars(length_depth)
    /\ WF_vars(summary_statistics)

----------------------------------------------------------------------------
(* Vocabulary of the properties *)

\* The current selection, and what it selects, stated on the rows alone.
Selection == <<input_species, input_mass>>
MassKnown(row) == row.body_mass_g # NaN
Matches(row) ==
    /\ row.species \in input_species
    /\ MassKnown(row)
    /\ row.body_mass_g < input_mass
Occurrences(d, row) == Cardinality({i \in 1..Len(d) : d[i] = row})
NumMatching == Cardinality({i \in 1..Len(df) : Matches(df[i])})
Rendered(out) == out \notin pending /\ display[out] # NotRendered

\* s can be read off t from left to right, skipping rows.
IsSubsequence(s, t) ==
    \E f \in [1..Len(s) -> 1..Len(t)] :
        /\ \A i \in 1..Len(s) : t[f[i]] = s[i]
        /\ \A i, j \in 1..Len(s) : i < j => f[i] < f[j]

----------------------------------------------------------------------------
(* The properties *)

\* C1: the filtered frame holds exactly the rows of df whose species is
\* selected and whose body mass is strictly below the threshold: each such
\* row as often as df holds it, and no row with a mass at or above the
\* threshold or with a species that is not selected.
C1_FilterExact ==
    calc_valid =>
        \A row \in Penguins :
            Occurrences(calc_value, row) =
                IF Matches(row) THEN Occurrences(df, row) ELSE 0

\* A row whose mass equals the threshold and whose species is selected is in
\* df, and the filtered frame holds other rows.
C1_Witness ==
    /\ calc_valid
    /\ calc_value # << >>
    /\ \E i \in 1..Len(df) :
          df[i].body_mass_g = input_mass /\ df[i].species \in input_species

\* C2, as stated: with every species selected and the threshold above the
\* mass of every row, the filtered frame is the whole of df.
C2_FullDataset ==
    ( /\ calc_valid
      /\ input_species = SpeciesChoices
      /\ \A i \in 1..Len(df) : MassKnown(df[i]) => df[i].body_mass_g < input_mass )
    => calc_value = df

\* C2, amended: with every species selected and the threshold above every
\* mass that is present, the filtered frame is df without the rows whose body
\* mass is missing, in df's order; it is df when no mass is missing.
C2_FullDatasetKnownMass ==
    ( /\ calc_valid
      /\ input_species = SpeciesChoices
      /\ \A i \in 1..Len(df) : MassKnown(df[i]) => df[i].body_mass_g < input_mass )
    => /\ calc_value = SelectSeq(df, MassKnown)
       /\ (\A i \in 1..Len(df) : MassKnown(df[i])) => calc_value = df

\* Everything is selected, and df holds rows with and without a mass.
C2_Witness ==
    /\ calc_valid
    /\ input_species = SpeciesChoices
    /\ \A i \in 1..Len(df) : MassKnown(df[i]) => df[i].body_mass_g < input_mass
    /\ \E i, j \in 1..Len(df) : MassKnown(df[i]) /\ ~MassKnown(df[j])

\* C3, as stated: while nothing matches the selection, the two averages do
\* not show the formatted NaN.
C3_EmptyViewNoData ==
    \A out \in {"bill_length", "bill_depth"} :
        (Rendered(out) /\ NumMatching = 0) =>
            display[out] # <<"Avg: nan mm">>

\* C4: the body of filtered_df runs once per selection: not before an output
\* asks for the frame, once when the first one asks, and never again until
\* the selection changes; every output that has rendered read the value
\* computed from the current selection.
C4_OneEvaluationPerChange ==
    /\ n_evals <= 1
    /\ pending = Outputs => (n_evals = 0 /\ ~calc_valid)
    /\ pending # Outputs => (n_evals = 1 /\ calc_valid /\ calc_sel = Selection)
    /\ \A out \in Outputs \ pending : seen[out] = Selection

\* The flush after a change of the selection has rendered every output.
C4_Witness ==
    /\ Idle
    /\ n_evals = 1
    /\ input_mass # SliderValue
    /\ input_species # SpeciesSelected

\* C5: every invalidated output is rendered again, and when none is left
\* each output shows what its function returns for the rows of df that the
\* current selection selects.
C5_LastSelectionWins ==
    /\ [](Idle =>
            \A out \in Outputs :
                display[out] = <<RenderValue(out, SelectSeq(df, Matches))>>)
    /\ \A out \in Outputs : (out \in pending) ~> (out \notin pending)

\* The outputs are up to date after the selection was changed back and forth.
C5_Witness ==
    /\ Idle
    /\ input_species = {"Gentoo"}
    /\ input_mass = 3750
    /\ \E i \in 1..Len(df) : df[i].species = "Gentoo"

\* C6: the filtered frame is a subsequence of df: its rows are rows of df,
\* none more often than in df, in the order df has them.
C6_Subsequence == calc_valid => IsSubsequence(calc_value, df)

\* Two different rows survive, and a row of df is dropped.
C6_Witness ==
    /\ calc_valid
    /\ Len(calc_value) = 2
    /\ calc_value[1] # calc_value[2]
    /\ Len(df) > 2

\* C7: no step changes df.
C7_DatasetNeverMutated == [][df' = df]_vars

\* The selection has changed and the filter has run on a frame of which it
\* drops rows.
C7_Witness ==
    /\ Idle
    /\ calc_valid
    /\ Selection # <<SpeciesSelected, SliderValue>>
    /\ Len(calc_value) < Len(df)

\* C8: the count shows the number of rows of df that the selection selects,
\* and "0 penguins" when it selects none.
C8_CountShown ==
    Rendered("count") =>
        /\ display["count"] = <<ToString(NumMatching) \o " penguins">>
        /\ NumMatching = 0 => display["count"] = <<"0 penguins">>

\* Nothing of a frame that has rows is selected, and the count is rendered.
C8_Witness ==
    /\ Rendered("count")
    /\ NumMatching = 0
    /\ Len(df) > 0
    /\ \E i \in 1..Len(df) : MassKnown(df[i])

\* C9: the session starts at 6000 g with the three species checked, and the
\* threshold stays within 2000..6000 and the checked species within the
\* three.
C9_SelectionRange ==
    /\ input_mass = 6000
    /\ input_species = {"Adelie", "Gentoo", "Chinstrap"}
    /\ [](/\ input_mass \in 2000..6000
          /\ input_species \subseteq {"Adelie", "Gentoo", "Chinstrap"})

\* The slider is at its lower end and no species is checked.
C9_Witness == input_mass = 2000 /\ input_species = {}

\* C10: a row whose body mass is missing is in no filtered frame, whatever
\* the selection: it is not among the rows of the grid, and the plot and the
\* count have exactly the rows with a mass that the selection selects.
C10_MissingMassExcluded ==
    /\ calc_valid => \A i \in 1..Len(calc_value) : MassKnown(calc_value[i])
    /\ Rendered("summary_statistics") =>
          \A i \in 1..Len(display["summary_statistics"][1]) :
              display["summary_statistics"][1][i].body_mass_g # NaN
    /\ Rendered("length_depth") => Len(display["length_depth"][1]) = NumMatching
    /\ Rendered("count") => display["count"][1] = CountText(SelectSeq(df, Matches))

\* The species of a row without a mass is checked, and everything has rendered.
C10_Witness ==
    /\ Idle
    /\ \E i \in 1..Len(df) : ~MassKnown(df[i]) /\ df[i].species \in input_species
    /\ \E i \in 1..Len(df) : Matches(df[i])

====
